---- MODULE Spec2Model ----
(***************************************************************************)
(* Model of huntarr.py: the SQLite ledger of searched media ids (StateDB), *)
(* the four hunt functions and the cycle driver run().                     *)
(*                                                                         *)
(* Time is counted in ticks; TicksPerHour ticks make one hour.  The ledger *)
(* stores and compares timestamps as ISO-8601 text, as the code does:      *)
(* isoformat() leaves the fractional part out when it is zero, and SQLite  *)
(* compares the texts byte by byte.                                        *)
(***************************************************************************)
EXTENDS Integers, Sequences, FiniteSets, TLC

\* ---------------------------------------------------------------- bounds
MaxTtl == 1
TicksPerHour == 2
MaxTicks == 2
MaxItems == 2
MaxLimit == 2
NumSonarr == 1
NumRadarr == 1
MaxCycles == 2
MaxFaultyCycles == 1
MaxFaultyTicks == 1
MaxTotal == 260

\* first clock value: late enough for now - ttl_hours to stay non-negative
Epoch == MaxTtl * TicksPerHour
MaxNow == Epoch + MaxTicks
Times == 0..MaxNow

\* ------------------------------------------------------ text of timestamps
PLUS == 43
DOT == 46
ZERO == 48

Digit(d) == ZERO + d

\* str(n) of a non-negative integer
RECURSIVE str(_)
str(n) == IF n < 10 THEN <<Digit(n)>> ELSE str(n \div 10) \o <<Digit(n % 10)>>

\* datetime.isoformat(): fixed-width hour field, ".f" only when the
\* fraction is not zero, then the UTC offset
isoformat(t) ==
    LET h == t \div TicksPerHour
        f == t % TicksPerHour
    IN  <<Digit(h \div 10), Digit(h % 10)>>
        \o (IF f = 0 THEN <<>> ELSE <<DOT, Digit(f)>>)
        \o <<PLUS>>

\* SQLite's TEXT comparison a < b (memcmp, the shorter prefix first)
RECURSIVE TextLess(_, _)
TextLess(a, b) ==
    IF b = <<>> THEN FALSE
    ELSE IF a = <<>> THEN TRUE
    ELSE IF Head(a) < Head(b) THEN TRUE
    ELSE IF Head(a) > Head(b) THEN FALSE
    ELSE TextLess(Tail(a), Tail(b))

TextLessEq(a, b) == a = b \/ TextLess(a, b)

\* ------------------------------------------------------------- vocabulary
Apps == {"sonarr", "sonarr_upgrade", "radarr", "radarr_upgrade"}
Names == {"A", "B"}
\* the names the idx-th instance of a list may carry: the lists may repeat a
\* name, and which names they use makes no difference, so the first
\* instance is "A" and a later one is "A" again or "B"
NamesAt(i) == IF i <= 1 THEN {"A"} ELSE Names
Ids == 1..MaxItems

Systems == <<"sonarr", "radarr">>
Hunts == <<"missing", "upgrades">>
\* hunt_missing and hunt_upgrades of an inst_cfg: a limit, 0 or less than 0
Limits == -1..MaxLimit
SampleTotals == {0, 1, 101}

VARIABLES
    now,          \* the UTC clock, in ticks
    ttl_hours,    \* StateDB.ttl_hours
    ledger,       \* rows of table searched
    conn,         \* StateDB.conn: "none", "open" or "closed"
    pc,           \* position of the process in run() and in the hunt it runs
    dry_run,      \* run(dry_run)
    purged,       \* run: purged
    totals,       \* run: totals
    sys,          \* run: which instance loop, "sonarr" or "radarr"
    idx,          \* run: index of inst_cfg in that list
    inst,         \* run: name, hunt_upgrades and monitored of inst_cfg
    hunt,         \* the hunt function being run: "missing" or "upgrades"
    limit,        \* hunt: limit
    monitored_only, \* hunt: monitored_only
    skip_future,  \* hunt: skip_future
    total,        \* hunt: total
    page_size,    \* hunt: page_size
    total_pages,  \* hunt: total_pages
    page,         \* hunt: page
    candidates,   \* hunt: ids of candidates
    to_search,    \* hunt: ids of to_search, in order
    pos,          \* hunt: index of the loop over to_search
    searched,     \* hunt: searched
    ret,          \* hunt: the value returned
    lastMarked,   \* history: key -> tick of the last committed mark
    hlog,         \* history: the calls of the current hunt, in order
    visited,      \* history: instances of this cycle whose turn has begun
    unusable,     \* history: instances of this cycle that lack url or
                  \* api_key or whose connection check failed
    called,       \* history: instances of this cycle that got a hunt call
    hunted,       \* history: the hunt calls of this cycle, each with its
                  \* system, instance index, kind and limit
    n_inst,       \* the config: how many instances each list holds
    cycles,       \* bound: how many more cycles may start
    horizon       \* bound: the last clock value

ledgerVars == <<now, ttl_hours, ledger, lastMarked>>
boundVars == <<n_inst, cycles, horizon>>
runVars == <<conn, pc, dry_run, purged, totals, sys, idx, inst, visited,
             unusable, called, hunted, boundVars>>
huntVars == <<hunt, limit, monitored_only, skip_future, total, page_size,
              total_pages, page, candidates, to_search, pos, searched, ret,
              hlog>>
vars == <<ledgerVars, runVars, huntVars>>

Key(app, instance, media_id) == <<app, instance, media_id>>
Keys == {Key(a, n, str(i)) : a \in Apps, n \in Names, i \in Ids}
RowKey(r) == Key(r.app, r.instance, r.media_id)
NoMark == -1

\* ------------------------------------------------------------ StateDB
cutoff(t) == isoformat(t - ttl_hours * TicksPerHour)

\* the comparison of is_searched taken as searched_at >= cutoff
is_searched_from_cutoff(db, t, app, instance, media_id) ==
    \E r \in db :
        /\ r.app = app
        /\ r.instance = instance
        /\ r.media_id = media_id
        /\ TextLessEq(cutoff(t), r.searched_at)

\* a SELECT whose WHERE leaves out the app column
is_searched_any_app(db, t, app, instance, media_id) ==
    \E r \in db :
        /\ r.instance = instance
        /\ r.media_id = media_id
        /\ TextLess(cutoff(t), r.searched_at)

is_searched(db, t, app, instance, media_id) ==
    \E r \in db :
        /\ r.app = app
        /\ r.instance = instance
        /\ r.media_id = media_id
        /\ TextLess(cutoff(t), r.searched_at)

\* INSERT without OR REPLACE on a table without the primary key
mark_searched_insert(db, t, app, instance, media_id) ==
    db \cup {[app |-> app, instance |-> instance, media_id |-> media_id,
              searched_at |-> isoformat(t)]}

\* INSERT OR IGNORE: an existing row keeps its timestamp
mark_searched_keep_first(db, t, app, instance, media_id) ==
    IF \E r \in db : RowKey(r) = Key(app, instance, media_id)
    THEN db
    ELSE db \cup {[app |-> app, instance |-> instance, media_id |-> media_id,
                   searched_at |-> isoformat(t)]}

mark_searched(db, t, app, instance, media_id) ==
    {r \in db : RowKey(r) # Key(app, instance, media_id)}
    \cup {[app |-> app, instance |-> instance, media_id |-> media_id,
           searched_at |-> isoformat(t)]}

\* a purge whose cutoff lies one tick later than that of is_searched
purge_expired_early(db, t) ==
    {r \in db : ~TextLessEq(r.searched_at,
                            isoformat(t + 1 - ttl_hours * TicksPerHour))}

purge_expired(db, t) == {r \in db : ~TextLessEq(r.searched_at, cutoff(t))}

rowcount(db, t) == Cardinality(db) - Cardinality(purge_expired(db, t))

\* --------------------------------------------------- records of a page
\* A date field holds NoDate (absent, null or ""), BadDate (a text that
\* fromisoformat rejects) or the tick that its text stands for; the text is
\* written like those of isoformat, with ".f" when the fraction is not zero,
\* and ends in "Z".
NoDate == -1
BadDate == -2
NoneDate == -3

\* "." in clean
HasFraction(s) == s % TicksPerHour # 0

\* a parse that keeps the fraction
split_dot_keeps_fraction(s) == s

\* clean.split(".")[0] + "Z": the text up to the fraction
split_dot(s) == s - (s % TicksPerHour)

\* None for no text and for a text that fromisoformat rejects; a text with a
\* fraction and a "Z" is parsed without its fraction
_parse_date(s) ==
    IF s = NoDate \/ s = BadDate THEN NoneDate
    ELSE IF HasFraction(s) THEN split_dot(s)
    ELSE s

\* m.get("releaseDate") or m.get("digitalRelease") or m.get("physicalRelease")
FirstTruthy(a, b, c) == IF a # NoDate THEN a ELSE IF b # NoDate THEN b ELSE c

\* the date the hunt looks at: airDateUtc, or the first release date present
RelevantDate(system, r) ==
    IF system = "sonarr" THEN r.airDateUtc
    ELSE FirstTruthy(r.releaseDate, r.digitalRelease, r.physicalRelease)

IsMonitored(system, r) ==
    IF system = "sonarr" THEN r.series_monitored /\ r.monitored
    ELSE r.monitored

MonitoredFilter(system, recs, mon) ==
    IF mon THEN {r \in recs : IsMonitored(system, r)} ELSE recs

IsFuture(system, r, t) ==
    LET d == _parse_date(RelevantDate(system, r))
    IN  d # NoneDate /\ d > t

\* a future filter that lets the future record of the lowest id through
FutureFilter_keep_one(system, h, recs, sf, t) ==
    IF h = "missing" /\ sf
    THEN {r \in recs :
            IsFuture(system, r, t) =>
                \A q \in recs : IsFuture(system, q, t) => r.id <= q.id}
    ELSE recs

FutureFilter(system, h, recs, sf, t) ==
    IF h = "missing" /\ sf
    THEN {r \in recs : ~IsFuture(system, r, t)}
    ELSE recs

\* the app column the hunt function uses
AppOf(system, h) == IF h = "missing" THEN system ELSE system \o "_upgrade"

\* the hunt without its already-searched filter
LedgerFilter_off(db, t, app, instance, recs) == recs

LedgerFilter(db, t, app, instance, recs) ==
    {r \in recs : ~is_searched(db, t, app, instance, str(r.id))}

FilterPage(system, h, db, t, instance, mon, sf, recs) ==
    LedgerFilter(db, t, AppOf(system, h), instance,
        FutureFilter(system, h,
            MonitoredFilter(system, recs, mon), sf, t))

\* random.sample(candidates, k): k different elements in some order
Injective(f) == \A i, j \in DOMAIN f : i # j => f[i] # f[j]
Sample(S, k) == {f \in [1..k -> S] : Injective(f)}

Min(a, b) == IF a < b THEN a ELSE b
Max(a, b) == IF a > b THEN a ELSE b

\* random.sample of all the candidates, whatever the limit
SampleSize_all(lim, n) == n

\* random.sample of max(limit, len(candidates)) records
SampleSize_most(lim, n) == Max(lim, n)

SampleSize(lim, n) == Min(lim, n)

\* ------------------------------------------------------- page selection
MaxPageSize == 100
PageSize(tot) == Min(MaxPageSize, tot)
\* the page count taken as total // page_size + 1
TotalPages_plus_one(tot) == tot \div PageSize(tot) + 1

TotalPages(tot) == Max(1, (tot + PageSize(tot) - 1) \div PageSize(tot))
Pages(tot) == 1..TotalPages(tot)

\* ------------------------------------------------ what the remote may send
\* per id: a plain record, an unmonitored one, one of an unmonitored
\* series or with a release date that has passed, and one in the future
Episode(mon, smon, air) ==
    [monitored |-> mon, series_monitored |-> smon, airDateUtc |-> air]
Movie(mon, rel, dig, phys) ==
    [monitored |-> mon, releaseDate |-> rel, digitalRelease |-> dig,
     physicalRelease |-> phys]
Fields(system, t) ==
    IF system = "sonarr"
    THEN {Episode(TRUE, TRUE, NoDate), Episode(FALSE, TRUE, t),
          Episode(TRUE, FALSE, BadDate), Episode(TRUE, TRUE, t + 1)}
    ELSE {Movie(TRUE, NoDate, NoDate, NoDate), Movie(FALSE, t, NoDate, NoDate),
          Movie(TRUE, NoDate, t, t + 1), Movie(TRUE, NoDate, t + 1, t)}

\* the pages the remote may answer with: records of different ids, at most
\* pageSize of them
PagesOf(system, t, size) ==
    UNION {{{[id |-> i] @@ f[i] : i \in S} : f \in [S -> Fields(system, t)]} :
           S \in {X \in SUBSET Ids : Cardinality(X) <= size}}

IdsOf(recs) == {r.id : r \in recs}

\* ------------------------------------------------------------ the cycle
NumOf(system) == n_inst[system]
TotalKey(system, h) == system \o "_" \o h
TotalKeys == {TotalKey(Systems[i], Hunts[j]) : i \in 1..2, j \in 1..2}
NoTotals == [k \in TotalKeys |-> 0]
NoInst == [name |-> "", hunt_missing |-> 0, hunt_upgrades |-> 0,
           monitored |-> FALSE]
Running == {"instance", "connect", "count", "fetch", "item", "mark",
            "return", "close"}
Event(op, id, res) == [op |-> op, id |-> id, res |-> res]
Here == <<sys, idx>>

\* no process: nothing but the ledger file exists
NoProcess ==
    /\ conn = "none"
    /\ pc = "idle"
    /\ dry_run = FALSE
    /\ purged = 0
    /\ totals = NoTotals
    /\ sys = "sonarr"
    /\ idx = 0
    /\ inst = NoInst
    /\ hunt = "missing"
    /\ limit = 0
    /\ monitored_only = FALSE
    /\ skip_future = FALSE
    /\ total = 0
    /\ page_size = 0
    /\ total_pages = 0
    /\ page = 0
    /\ candidates = {}
    /\ to_search = <<>>
    /\ pos = 0
    /\ searched = 0
    /\ ret = 0
    /\ hlog = <<>>
    /\ visited = {}
    /\ unusable = {}
    /\ called = {}
    /\ hunted = {}

\* a new ledger file, both lists of the config full, one cycle, every call
\* may fail
Init ==
    /\ now = Epoch
    /\ ttl_hours \in 1..MaxTtl
    /\ ledger = {}
    /\ lastMarked = [k \in Keys |-> NoMark]
    /\ n_inst = [system \in {"sonarr", "radarr"} |->
                    IF system = "sonarr" THEN NumSonarr ELSE NumRadarr]
    /\ cycles = MaxFaultyCycles
    /\ horizon = Epoch + MaxFaultyTicks
    /\ NoProcess

\* the variables of the queries, which nothing reads after the filters
ClearQuery ==
    /\ monitored_only' = FALSE
    /\ skip_future' = FALSE
    /\ total' = 0
    /\ page_size' = 0
    /\ total_pages' = 0
    /\ page' = 0

ClearLocals ==
    /\ limit' = 0
    /\ ClearQuery
    /\ candidates' = {}
    /\ to_search' = <<>>
    /\ pos' = 0
    /\ searched' = 0
    /\ ret' = 0

\* the process ends without reaching state.close(): its variables are gone,
\* the ledger file keeps what was committed
ProcessDies(how) ==
    /\ pc' = how
    /\ conn' = "dropped"
    /\ dry_run' = FALSE
    /\ purged' = 0
    /\ totals' = NoTotals
    /\ sys' = "sonarr"
    /\ idx' = 0
    /\ inst' = NoInst
    /\ hunt' = "missing"
    /\ ClearLocals
    /\ visited' = {}
    /\ unusable' = {}
    /\ called' = {}
    /\ hunted' = {}

\* the for loops of run(): the next inst_cfg of the list, the first one of
\* the radarr list after the sonarr list, or the end of both
FirstRadarr ==
    IF NumOf("radarr") >= 1
    THEN sys' = "radarr" /\ idx' = 1 /\ pc' = "instance"
    ELSE sys' = "radarr" /\ idx' = 0 /\ pc' = "close"

\* the sonarr list gone through again after the radarr list
NextInstance_wraps ==
    /\ inst' = NoInst
    /\ IF idx < NumOf(sys)
       THEN sys' = sys /\ idx' = idx + 1 /\ pc' = "instance"
       ELSE IF sys = "sonarr"
       THEN FirstRadarr
       ELSE IF NumOf("sonarr") >= 1
       THEN sys' = "sonarr" /\ idx' = 1 /\ pc' = "instance"
       ELSE sys' = sys /\ idx' = idx /\ pc' = "close"

NextInstance ==
    /\ inst' = NoInst
    /\ IF idx < NumOf(sys)
       THEN sys' = sys /\ idx' = idx + 1 /\ pc' = "instance"
       ELSE IF sys = "sonarr"
       THEN FirstRadarr
       ELSE sys' = sys /\ idx' = idx /\ pc' = "close"

\* entry of a hunt function with its arguments
StartHunt(h, lim, mon, sf) ==
    /\ hunted' = hunted \cup {<<sys, idx, h, lim>>}
    /\ hunt' = h
    /\ limit' = lim
    /\ monitored_only' = mon
    /\ skip_future' = sf
    /\ pc' = "count"
    /\ hlog' = <<>>
    /\ total' = 0
    /\ page_size' = 0
    /\ total_pages' = 0
    /\ page' = 0
    /\ candidates' = {}
    /\ to_search' = <<>>
    /\ pos' = 0
    /\ searched' = 0
    /\ ret' = 0

\* run(): open the ledger, purge, zero the totals, enter the sonarr loop
RunStart ==
    /\ pc \in {"idle", "done", "crashed", "killed"}
    /\ cycles > 0
    /\ cycles' = cycles - 1
    /\ \E d \in BOOLEAN : dry_run' = d
    /\ conn' = "open"
    /\ purged' = rowcount(ledger, now)
    /\ ledger' = purge_expired(ledger, now)
    /\ totals' = NoTotals
    /\ inst' = NoInst
    /\ IF NumOf("sonarr") >= 1
       THEN sys' = "sonarr" /\ idx' = 1 /\ pc' = "instance"
       ELSE FirstRadarr
    /\ hunt' = "missing"
    /\ hlog' = <<>>
    /\ ClearLocals
    /\ visited' = {}
    /\ unusable' = {}
    /\ called' = {}
    /\ hunted' = {}
    /\ UNCHANGED <<now, ttl_hours, lastMarked, n_inst, horizon>>

\* the instance is used whatever its url and api_key
MissingField_never(has_url_and_key) == FALSE

\* if not url or not key
MissingField(has_url_and_key) == ~has_url_and_key

\* top of a loop body: name, url and api_key of inst_cfg; an instance
\* without url or api_key is skipped
InstanceBegin ==
    /\ pc = "instance"
    /\ visited' = visited \cup {Here}
    /\ \E name \in NamesAt(idx), has_url_and_key \in BOOLEAN :
        /\ unusable' = IF has_url_and_key THEN unusable
                                          ELSE unusable \cup {Here}
        /\ IF MissingField(has_url_and_key)
           THEN NextInstance
           ELSE /\ inst' = [NoInst EXCEPT !.name = name]
                /\ pc' = "connect"
                /\ UNCHANGED <<sys, idx>>
    /\ UNCHANGED <<ledgerVars, huntVars, boundVars, conn, dry_run, purged,
                   totals, called, hunted>>

\* a hunt with limit 0 is called as well
HuntEnabled_from_zero(lim) == lim >= 0

\* if hunt_missing > 0, if hunt_upgrades > 0
HuntEnabled(lim) == lim > 0

\* client.check_connection() returns True; then the limits and flags of
\* inst_cfg and the first hunt that is enabled
CheckConnection ==
    /\ pc = "connect"
    /\ \E hm \in Limits, hu \in Limits, mon \in BOOLEAN, sf \in BOOLEAN :
        LET cfg == [name |-> inst.name, hunt_missing |-> hm,
                    hunt_upgrades |-> hu, monitored |-> mon]
        IN  IF HuntEnabled(hm)
            THEN inst' = cfg /\ StartHunt("missing", hm, mon, sf)
                 /\ UNCHANGED <<sys, idx>>
            ELSE IF HuntEnabled(hu)
            THEN inst' = cfg /\ StartHunt("upgrades", hu, mon, FALSE)
                 /\ UNCHANGED <<sys, idx>>
            ELSE NextInstance /\ UNCHANGED <<huntVars, hunted>>
    /\ UNCHANGED <<ledgerVars, boundVars, conn, dry_run, purged, totals,
                   visited, unusable, called>>

\* client.check_connection() returns False: the instance is unusable
CheckConnectionFails ==
    /\ pc = "connect"
    /\ unusable' = unusable \cup {Here}
    /\ NextInstance
    /\ UNCHANGED <<ledgerVars, huntVars, boundVars, conn, dry_run, purged,
                   totals, visited, called, hunted>>

\* a total of 0 goes on to the fetch of one page of size 1
ReturnOnNoRecords_fetches ==
    /\ page_size' = 1
    /\ total_pages' = 1
    /\ page' = 1
    /\ pc' = "fetch"
    /\ UNCHANGED ret

\* if total == 0: return 0
ReturnOnNoRecords ==
    /\ ret' = 0
    /\ pc' = "return"
    /\ UNCHANGED <<page_size, total_pages, page>>

\* the count query of a hunt: client.get(..., pageSize 1), the total == 0
\* return, and the choice of the page
CountQuery(answers) ==
    /\ pc = "count"
    /\ called' = called \cup {Here}
    /\ hlog' = Append(hlog, Event("count", 0, "ok"))
    /\ \E answer \in answers :
          /\ total' = answer
          /\ IF answer = 0
             THEN ReturnOnNoRecords
             ELSE /\ page_size' = PageSize(answer)
                  /\ total_pages' = TotalPages(answer)
                  /\ page' \in Pages(answer)
                  /\ pc' = "fetch"
                  /\ UNCHANGED ret
    /\ UNCHANGED <<ledgerVars, boundVars, conn, dry_run, purged, totals, sys,
                   idx, inst, visited, unusable, hunted, hunt, limit,
                   monitored_only, skip_future, candidates, to_search, pos,
                   searched>>

HuntCount == CountQuery(SampleTotals)

\* a client.get of a hunt raises: nothing between the hunt and main()
\* catches it, and the process ends with the traceback
SourceQueryFails ==
    /\ pc \in {"count", "fetch"}
    /\ hlog' = Append(hlog, Event(pc, 0, "fail"))
    /\ ProcessDies("crashed")
    /\ UNCHANGED <<ledgerVars, boundVars>>

\* the page fetch of a hunt, the three filters, the no-candidates return
\* and random.sample
HuntFetch ==
    /\ pc = "fetch"
    /\ called' = called \cup {Here}
    /\ hlog' = Append(hlog, Event("fetch", 0, "ok"))
    /\ \E records \in PagesOf(sys, now, page_size) :
        LET kept == FilterPage(sys, hunt, ledger, now, inst.name,
                               monitored_only, skip_future, records)
        IN  /\ candidates' = IdsOf(kept)
            /\ ClearQuery
            /\ IF kept = {}
               THEN /\ ret' = 0
                    /\ pc' = "return"
                    /\ UNCHANGED <<to_search, pos, searched>>
               ELSE /\ to_search' \in
                        Sample(IdsOf(kept),
                               SampleSize(limit, Cardinality(kept)))
                    /\ searched' = 0
                    /\ pos' = 1
                    /\ pc' = "item"
                    /\ UNCHANGED ret
    /\ UNCHANGED <<ledgerVars, boundVars, conn, dry_run, purged, totals, sys,
                   idx, inst, visited, unusable, hunted, hunt, limit>>

\* the loop left after its first turn
NextItem_break(count) == pos' = pos /\ pc' = "return" /\ ret' = count

\* end of one turn of the loop over to_search
NextItem(count) ==
    IF pos < Len(to_search)
    THEN pos' = pos + 1 /\ pc' = "item" /\ UNCHANGED ret
    ELSE pos' = pos /\ pc' = "return" /\ ret' = count

\* the command is posted in a dry run too
Triggers_always(dry) == TRUE

\* if dry_run: ... else: client.post(...)
Triggers(dry) == ~dry

\* a post whose failure is swallowed
PostRaises_never(answer) == FALSE

\* client.post raises unless the command was accepted and answered in JSON
PostRaises(answer) == answer # "ok"

HereKey(id) == Key(AppOf(sys, hunt), inst.name, str(id))

itemFrame == <<now, ttl_hours, ledger, lastMarked, boundVars, conn, dry_run,
               purged, totals, sys, idx, inst, visited, unusable, hunted, hunt,
               limit, monitored_only, skip_future, total, page_size,
               total_pages, page, candidates, to_search>>

\* one turn of the loop: the dry-run log line, or a client.post("command")
\* that returns
HuntItem ==
    /\ pc = "item"
    /\ IF ~Triggers(dry_run)
       THEN /\ hlog' = Append(hlog, Event("dry", to_search[pos], "ok"))
            /\ NextItem(searched)
            /\ UNCHANGED called
       ELSE /\ hlog' = Append(hlog, Event("post", to_search[pos], "ok"))
            /\ called' = called \cup {Here}
            /\ pc' = "mark"
            /\ UNCHANGED <<pos, ret>>
    /\ UNCHANGED <<itemFrame, searched>>

\* client.post raises, because the request failed or was rejected
\* ("rejected") or because the command was accepted and the answer is no
\* JSON ("badjson"); the except of the loop logs it
HuntItemFails ==
    /\ pc = "item"
    /\ Triggers(dry_run)
    /\ called' = called \cup {Here}
    /\ \E answer \in {"rejected", "badjson"} :
        /\ hlog' = Append(hlog, Event("post", to_search[pos], answer))
        /\ IF PostRaises(answer)
           THEN NextItem(searched)
           ELSE pc' = "mark" /\ UNCHANGED <<pos, ret>>
    /\ UNCHANGED <<itemFrame, searched>>

\* searched += 1 placed ahead of state.mark_searched
SearchedAfterMark_counts_first(count, marked) == count + 1

\* state.mark_searched(...) then searched += 1, inside the try: the count
\* grows only when mark_searched returned
SearchedAfterMark(count, marked) == IF marked THEN count + 1 ELSE count

\* state.mark_searched after a post that returned, and searched += 1
HuntMark ==
    /\ pc = "mark"
    /\ called' = called \cup {Here}
    /\ ledger' = mark_searched(ledger, now, AppOf(sys, hunt), inst.name,
                               str(to_search[pos]))
    /\ lastMarked' = [lastMarked EXCEPT ![HereKey(to_search[pos])] = now]
    /\ hlog' = Append(hlog, Event("mark", to_search[pos], "ok"))
    /\ searched' = SearchedAfterMark(searched, TRUE)
    /\ NextItem(SearchedAfterMark(searched, TRUE))
    /\ UNCHANGED <<now, ttl_hours, boundVars, conn, dry_run, purged, totals,
                   sys, idx, inst, visited, unusable, hunted, hunt, limit,
                   monitored_only, skip_future, total, page_size, total_pages,
                   page, candidates, to_search>>

\* state.mark_searched raises; the except of the loop logs it
HuntMarkFails ==
    /\ pc = "mark"
    /\ called' = called \cup {Here}
    /\ hlog' = Append(hlog, Event("mark", to_search[pos], "fail"))
    /\ searched' = SearchedAfterMark(searched, FALSE)
    /\ NextItem(SearchedAfterMark(searched, FALSE))
    /\ UNCHANGED itemFrame

\* totals[...] += the hunt's value, then the upgrade hunt of the instance
\* if this was its missing hunt and hunt_upgrades > 0, else the next instance
HuntReturn ==
    /\ pc = "return"
    /\ totals' = [totals EXCEPT ![TotalKey(sys, hunt)] = @ + ret]
    /\ IF hunt = "missing" /\ HuntEnabled(inst.hunt_upgrades)
       THEN /\ StartHunt("upgrades", inst.hunt_upgrades, inst.monitored, FALSE)
            /\ UNCHANGED <<sys, idx, inst>>
       ELSE /\ NextInstance /\ hunt' = "missing" /\ hlog' = <<>>
            /\ ClearLocals /\ UNCHANGED hunted
    /\ UNCHANGED <<ledgerVars, boundVars, conn, dry_run, purged, visited,
                   unusable, called>>

\* state.close() and return totals
RunEnd ==
    /\ pc = "close"
    /\ conn' = "closed"
    /\ pc' = "done"
    /\ UNCHANGED <<ledgerVars, huntVars, boundVars, dry_run, purged, totals,
                   sys, idx, inst, visited, unusable, called, hunted>>

\* the process is killed in the middle of a cycle
Kill ==
    /\ pc \in Running
    /\ ProcessDies("killed")
    /\ hlog' = <<>>
    /\ UNCHANGED <<ledgerVars, boundVars>>

\* the clock
Tick ==
    /\ now < horizon
    /\ now' = now + 1
    /\ UNCHANGED <<ttl_hours, ledger, lastMarked, runVars,
                   huntVars>>

Next ==
    \/ RunStart
    \/ InstanceBegin
    \/ CheckConnection
    \/ CheckConnectionFails
    \/ HuntCount
    \/ HuntFetch
    \/ SourceQueryFails
    \/ HuntItem
    \/ HuntItemFails
    \/ HuntMark
    \/ HuntMarkFails
    \/ HuntReturn
    \/ RunEnd
    \/ Kill
    \/ Tick

Spec == Init /\ [][Next]_vars

\* ------------------------------------------------- cycle after cycle
\* One instance, of either system, whose calls all succeed, run for
\* MaxCycles cycles while the clock runs to MaxNow.
InitCycles ==
    /\ now = Epoch
    /\ ttl_hours \in 1..MaxTtl
    /\ ledger = {}
    /\ lastMarked = [k \in Keys |-> NoMark]
    /\ n_inst \in {[system \in {"sonarr", "radarr"} |->
                       IF system = s THEN 1 ELSE 0] :
                   s \in {"sonarr", "radarr"}}
    /\ cycles = MaxCycles
    /\ horizon = MaxNow
    /\ NoProcess

\* the clock moves between two cycles and while the process waits for the
\* page it asked for
TickWaiting ==
    /\ pc \in {"idle", "done", "fetch"}
    /\ Tick

NextCycles ==
    \/ RunStart
    \/ InstanceBegin
    \/ CheckConnection
    \/ HuntCount
    \/ HuntFetch
    \/ HuntItem
    \/ HuntMark
    \/ HuntReturn
    \/ RunEnd
    \/ TickWaiting

SpecCycles == InitCycles /\ [][NextCycles]_vars

\* ------------------------------------------------------ the count query
\* The start of a cycle up to the count query of its first hunt, the remote
\* reporting any total up to MaxTotal.
HuntCountAny == CountQuery(0..MaxTotal)

NextPage ==
    \/ RunStart
    \/ InstanceBegin
    \/ CheckConnection
    \/ HuntCountAny

SpecPage == Init /\ [][NextPage]_vars

\* ------------------------------------------------------ the ledger alone
\* Any client of StateDB: marks of a few keys and purges in any order while
\* the clock runs, with ttl_hours from 0.
NearKeys ==
    {k \in Keys :
        Cardinality({i \in 1..3 :
                        k[i] # Key("sonarr", "A", str(1))[i]}) <= 1}

InitLedger ==
    /\ now = Epoch
    /\ ttl_hours \in 0..MaxTtl
    /\ ledger = {}
    /\ lastMarked = [k \in Keys |-> NoMark]
    /\ n_inst = [system \in {"sonarr", "radarr"} |-> 0]
    /\ cycles = 0
    /\ horizon = MaxNow
    /\ NoProcess

MarkSearched ==
    /\ \E k \in NearKeys :
        /\ ledger' = mark_searched(ledger, now, k[1], k[2], k[3])
        /\ lastMarked' = [lastMarked EXCEPT ![k] = now]
    /\ UNCHANGED <<now, ttl_hours, runVars, huntVars>>

PurgeExpired ==
    /\ ledger' = purge_expired(ledger, now)
    /\ purged' = rowcount(ledger, now)
    /\ UNCHANGED <<now, ttl_hours, lastMarked, huntVars, boundVars,
                   conn, pc, dry_run, totals, sys, idx, inst, visited, unusable,
                   called, hunted>>

NextLedger ==
    \/ MarkSearched
    \/ PurgeExpired
    \/ Tick

SpecLedger == InitLedger /\ [][NextLedger]_vars

\* ------------------------------------------- a cycle on a used ledger
\* One cycle as in Spec, on a ledger that an earlier cycle left with a row
\* that has expired since.
OldKey == Key("sonarr", "A", str(1))

InitOrder ==
    /\ now = Epoch
    /\ ttl_hours \in 1..MaxTtl
    /\ ledger = {[app |-> OldKey[1], instance |-> OldKey[2],
                  media_id |-> OldKey[3], searched_at |-> isoformat(0)]}
    /\ lastMarked = [k \in Keys |-> IF k = OldKey THEN 0 ELSE NoMark]
    /\ n_inst = [system \in {"sonarr", "radarr"} |->
                    IF system = "sonarr" THEN NumSonarr ELSE NumRadarr]
    /\ cycles = MaxFaultyCycles
    /\ horizon = Epoch + MaxFaultyTicks
    /\ NoProcess

SpecOrder == InitOrder /\ [][Next]_vars

\* ================================================================ claims
HasRow(k) == \E r \in ledger : RowKey(r) = k
Recent(k) == is_searched(ledger, now, k[1], k[2], k[3])
\* the first tick at which a mark made at tick t is ttl_hours old
Expiry(t) == t + ttl_hours * TicksPerHour
Marked(k) == lastMarked[k] # NoMark

\* C1: a key last marked at T is recently searched at every later time
\* before T + ttl_hours and at no time from T + ttl_hours on, whether its row
\* was purged or not.
C1_RecentExactlyWithinTtl ==
    \A k \in Keys : Marked(k) => (Recent(k) <=> now < Expiry(lastMarked[k]))

\* a state with a key inside its window, marked before now, and a key past
\* its window whose row a purge has deleted
C1_Witness ==
    /\ \E k \in Keys :
        Marked(k) /\ lastMarked[k] < now /\ now < Expiry(lastMarked[k])
    /\ \E k \in Keys :
        Marked(k) /\ now >= Expiry(lastMarked[k]) /\ ~HasRow(k)

\* ----------------------------------------------------------------------
Range(f) == {f[i] : i \in DOMAIN f}
Last(q) == q[Len(q)]
\* the ids of the current hunt's calls of one kind with one of some answers
Logged(op, answers) ==
    {hlog[i].id : i \in {j \in DOMAIN hlog :
                            hlog[j].op = op /\ hlog[j].res \in answers}}
Calls(op) == {i \in DOMAIN hlog : hlog[i].op = op}
InCycle == pc \in Running \cup {"done"}
\* the hunt got its page and went through the filters and the sample
Fetched == Len(hlog) >= 2 /\ hlog[2] = Event("fetch", 0, "ok")
Selected == pc \in {"item", "mark"} \/ (pc = "return" /\ Fetched)

\* C2: the command for an item is posted only when its key was never marked
\* or was last marked at least ttl_hours ago: this holds of the item about
\* to be posted, and of the item whose post has just returned.
C2_NoRetriggerInCooldown ==
    ((pc = "item" /\ Triggers(dry_run)) \/ pc = "mark") =>
        LET k == HereKey(to_search[pos])
        IN  Marked(k) => now >= Expiry(lastMarked[k])

\* an item marked in an earlier cycle is triggered again, its window over
C2_Witness == pc = "mark" /\ Marked(HereKey(to_search[pos]))

\* C3, as claimed: a dry-run cycle leaves the ledger as it found it, posts
\* no command and counts nothing.
C3_DryRunLeavesLedger ==
    [][(dry_run' /\ InCycle') =>
        /\ ledger' = ledger
        /\ Calls("post")' = {} /\ Calls("mark")' = {}
        /\ totals' = NoTotals]_vars

\* C3, amended: a dry-run cycle posts no command, inserts and overwrites no
\* row and counts nothing; the one change it makes to the ledger is the
\* purge at its start, which deletes rows that are ttl_hours old or older.
C3_DryRunOnlyPurges ==
    [][(dry_run' /\ InCycle') =>
        /\ ledger' \subseteq ledger
        /\ ledger' # ledger => pc \notin Running
        /\ \A r \in ledger \ ledger' : now >= Expiry(lastMarked[RowKey(r)])
        /\ Calls("post")' = {} /\ Calls("mark")' = {}
        /\ totals' = NoTotals]_vars

\* a dry run that purged rows and has logged the item it would search
C3_Witness ==
    /\ dry_run /\ pc = "return" /\ purged > 0
    /\ Calls("dry") # {} /\ ret = 0

\* C4, as claimed: when a count query or a page fetch fails the hunt gives 0
\* to the cycle, which goes on.
C4_SourceFailureIsCaught ==
    (hlog # <<>> /\ Last(hlog).op \in {"count", "fetch"}
        /\ Last(hlog).res = "fail")
    => (pc = "return" /\ ret = 0)

\* C5: a row is written only by the step that follows the returned post of
\* the same item; a failed post, a kill and every other step write none.
C5_MarkOnlyAfterTrigger ==
    [][\A r \in ledger' \ ledger :
        /\ pc = "mark"
        /\ RowKey(r) = HereKey(to_search[pos])
        /\ hlog # <<>> /\ Last(hlog) = Event("post", to_search[pos], "ok")]_vars

\* the process was killed after it had committed a mark
C5_Witness == pc = "killed" /\ ledger # {}

\* C6: when a hunt that posts returns, every selected item was posted; the
\* items whose post failed were not marked and are still not recently
\* searched, the others went on to their mark, and the value returned is the
\* number of marks that succeeded.
C6_BatchSurvivesFailure ==
    (pc = "return" /\ ~dry_run /\ to_search # <<>>) =>
        LET failed == Logged("post", {"rejected", "badjson"})
        IN  /\ Logged("post", {"ok", "rejected", "badjson"}) = Range(to_search)
            /\ Logged("mark", {"ok", "fail"}) = Range(to_search) \ failed
            /\ \A id \in failed : ~Recent(HereKey(id))
            /\ ret = Cardinality(Logged("mark", {"ok"}))

\* the first of two selected items failed and the second was searched
C6_Witness ==
    /\ pc = "return" /\ Len(to_search) = 2 /\ ret = 1
    /\ to_search[1] \in Logged("post", {"rejected", "badjson"})
    /\ to_search[2] \in Logged("mark", {"ok"})
    /\ HasRow(HereKey(to_search[2]))

\* C7: after the sample, to_search holds min(limit, N) different items of
\* the N candidates, none of which is recently searched, and limit >= 1.
C7_BoundedSelection ==
    Selected =>
        LET n == Cardinality(candidates)
        IN  /\ limit >= 1
            /\ Len(to_search) <= limit /\ Len(to_search) <= n
            /\ Len(to_search) = limit \/ Len(to_search) = n
            /\ Cardinality(Range(to_search)) = Len(to_search)
            /\ Range(to_search) \subseteq candidates
            /\ (pc = "item" /\ pos = 1) =>
                   \A id \in candidates : ~Recent(HereKey(id))

\* the limit cuts the candidates down, with rows in the ledger
C7_Witness ==
    /\ pc = "item" /\ Len(to_search) < Cardinality(candidates)
    /\ ledger # {}

\* C8: when a hunt that posts returns, with every post and every mark
\* succeeding, the posts, the different ids posted, the rows of the hunt's
\* kind and instance for those ids and the value returned all number
\* min(limit, N).
C8_CountsAgree ==
    (pc = "return" /\ ~dry_run /\ Fetched) =>
        LET n == Min(limit, Cardinality(candidates))
            ids == Logged("post", {"ok"})
        IN  /\ Cardinality(Calls("post")) = n
            /\ Cardinality(ids) = n
            /\ Cardinality({r \in ledger :
                   /\ r.app = AppOf(sys, hunt)
                   /\ r.instance = inst.name
                   /\ r.media_id \in {str(id) : id \in ids}}) = n
            /\ \A id \in ids : lastMarked[HereKey(id)] = now
            /\ ret = n

\* one item of the page is fresh in the ledger, so a limit of 2 searches 1
C8_Witness ==
    /\ pc = "return" /\ ~dry_run /\ Fetched
    /\ limit = 2 /\ ret = 1
    /\ \E id \in Ids \ candidates : Recent(HereKey(id))

\* C9: for a total >= 1 the page size is min(100, total), the page count is
\* ceil(total / page size) and at least 1, and the page asked for is one of
\* 1..page count.
C9_PageSelection ==
    pc = "fetch" =>
        /\ total >= 1
        /\ page_size <= MaxPageSize /\ page_size <= total
        /\ page_size = MaxPageSize \/ page_size = total
        /\ total_pages >= 1
        /\ total_pages * page_size >= total
        /\ (total_pages - 1) * page_size < total
        /\ page \in 1..total_pages
        /\ total = 250 => total_pages = 3
        /\ total = 1 => (page_size = 1 /\ total_pages = 1)

\* 250 records: the third page of three
C9_Witness == pc = "fetch" /\ total = 250 /\ page = 3 /\ page_size = 100

\* C10: an instance without url or api_key, or whose connection check
\* failed, gets no call of a hunt, the process leaves it at once, and the
\* cycle ends only after the turn of every instance of both lists.
AllInstances ==
    UNION {{<<system, j>> : j \in 1..NumOf(system)} :
              system \in {"sonarr", "radarr"}}
C10_UnusableInstanceSkipped ==
    /\ unusable \cap called = {}
    /\ \A x \in unusable : x # Here \/ pc \in {"close", "done"}
    /\ pc \in {"close", "done"} => visited = AllInstances

\* the sonarr instance was skipped and the radarr instance is hunted
C10_Witness ==
    /\ <<"sonarr", 1>> \in unusable
    /\ <<"radarr", 1>> \in called
    /\ pc = "mark"

\* the positions inside a hunt function
HuntPcs == {"count", "fetch", "item", "mark", "return"}
\* the limit inst_cfg gives for a kind of hunt
ConfiguredLimit(h) ==
    IF h = "missing" THEN inst.hunt_missing ELSE inst.hunt_upgrades

\* C11: a hunt is entered only with the limit its instance configures for
\* that kind, and that limit is above 0; every call is made inside a hunt
\* and a counter changes only by the return of the hunt of its own kind.
\* So a kind whose limit is 0 or less gets no call and adds nothing.
C11_DisabledHuntMakesNoCall ==
    [][/\ pc' \in HuntPcs =>
            limit' > 0 /\ limit' = ConfiguredLimit(hunt)'
       /\ (hlog' # hlog /\ hlog' # <<>>) => pc \in HuntPcs
       /\ (pc \in Running /\ pc' \in Running) =>
            \A k \in TotalKeys :
                totals'[k] # totals[k] =>
                    pc = "return" /\ k = TotalKey(sys, hunt)]_vars

\* an instance with hunt_missing below 0 whose upgrade hunt searched an item
C11_Witness ==
    /\ pc = "return" /\ hunt = "upgrades" /\ ret = 1
    /\ inst.hunt_missing = -1
    /\ totals[TotalKey(sys, "missing")] = 0

\* C12: the count query that reports a total of 0 takes the hunt straight
\* to its return with the value 0: no page is chosen or fetched, the ledger
\* is neither read for a filter nor written, no command is posted, and the
\* return adds nothing to the totals.
C12_ZeroTotalShortCircuits ==
    [][/\ (pc = "count" /\ pc' \in Running \ {"count"} /\ total' = 0) =>
            /\ pc' = "return" /\ ret' = 0
            /\ hlog' = <<Event("count", 0, "ok")>>
            /\ page' = 0 /\ page_size' = 0 /\ total_pages' = 0
            /\ candidates' = {} /\ to_search' = <<>>
            /\ ledger' = ledger /\ totals' = totals
       /\ (pc = "return" /\ hlog = <<Event("count", 0, "ok")>>
             /\ pc' \in Running) =>
            ledger' = ledger /\ totals' = totals]_vars

\* a hunt about to return from its count query, with a row in the ledger
\* and a limit of 2
C12_Witness ==
    /\ pc = "return" /\ hlog = <<Event("count", 0, "ok")>>
    /\ limit = 2 /\ ledger # {}

\* C13: when mark_searched raises after the post of an item returned, the
\* count of searched items stays as it was, the post stays made (no further
\* call is issued for the item), and the loop goes on with the next selected
\* item or, after the last one, returns the count to the cycle; at the
\* return the value is the number of marks that succeeded and every
\* selected item was posted.
C13_FailedMarkNotCounted ==
    [][/\ (pc = "mark" /\ hlog' = Append(hlog,
                              Event("mark", to_search[pos], "fail"))) =>
            /\ Last(hlog) = Event("post", to_search[pos], "ok")
            /\ searched' = searched
            /\ to_search' = to_search
            /\ IF pos < Len(to_search)
               THEN pc' = "item" /\ pos' = pos + 1
               ELSE pc' = "return" /\ ret' = searched
       /\ (pc' = "return" /\ Logged("mark", {"fail"})' # {}) =>
            /\ ret' = Cardinality(Logged("mark", {"ok"})')
            /\ Logged("post", {"ok", "rejected", "badjson"})'
                   = Range(to_search')
            /\ Logged("mark", {"fail"})' \subseteq Logged("post", {"ok"})'
       /\ (pc = "return" /\ Logged("mark", {"fail"}) # {}) =>
            pc' \in {"return", "count", "instance", "close", "killed"}]_vars

\* the mark of the first of two items failed, the second one was searched
C13_Witness ==
    /\ pc = "return" /\ Len(to_search) = 2 /\ ret = 1
    /\ to_search[1] \in Logged("mark", {"fail"})
    /\ to_search[1] \in Logged("post", {"ok"})
    /\ to_search[2] \in Logged("mark", {"ok"})

\* C14, as claimed: a cycle that opened the ledger closes it on every path;
\* so when run() is over, by its return or by an exception that a failed
\* call raised, the ledger it opened is closed.
C14_EndedCycleHasClosed ==
    pc \in {"done", "crashed"} => conn = "closed"

\* C15: purge_expired deletes exactly the rows that are ttl_hours old or
\* older and returns their number; none of them is recently searched, a
\* second purge deletes nothing more, and for every key is_searched answers
\* the same on the purged ledger as on the unpurged one, now and at every
\* later time.
C15_PurgeIsHousekeeping ==
    LET kept == purge_expired(ledger, now)
        gone == ledger \ kept
    IN  /\ gone = {r \in ledger : now >= Expiry(lastMarked[RowKey(r)])}
        /\ rowcount(ledger, now) = Cardinality(gone)
        /\ \A r \in gone : ~Recent(RowKey(r))
        /\ purge_expired(kept, now) = kept
        /\ \A k \in Keys, t \in now..horizon :
               is_searched(kept, t, k[1], k[2], k[3])
                   <=> is_searched(ledger, t, k[1], k[2], k[3])

\* a ledger with an expired row that no purge has deleted yet beside a row
\* that is still fresh
C15_Witness ==
    /\ \E r \in ledger : now >= Expiry(lastMarked[RowKey(r)])
    /\ \E r \in ledger : now < Expiry(lastMarked[RowKey(r)])

\* the three filters of the running hunt, each on its own
OnlyMonitored(recs) == MonitoredFilter(sys, recs, monitored_only)
OnlyNotFuture(recs) == FutureFilter(sys, hunt, recs, skip_future, now)
OnlyNotSearched(recs) ==
    LedgerFilter(ledger, now, AppOf(sys, hunt), inst.name, recs)
Pipeline(recs) ==
    FilterPage(sys, hunt, ledger, now, inst.name, monitored_only,
               skip_future, recs)

KeysIn(db) == {RowKey(r) : r \in db}
OnePerKey(db) == \A r, q \in db : RowKey(r) = RowKey(q) => r = q

\* C17: the ledger holds at most one row per key; a mark of any key leaves
\* one row of that key, stamped now, beside the rows of the other keys as
\* they were; a second mark of the key, now or later, leaves the same keys,
\* again one row each, with the later stamp.
C17_OneRowPerKey ==
    /\ OnePerKey(ledger)
    /\ \A k \in NearKeys :
        \A once \in {mark_searched(ledger, now, k[1], k[2], k[3])} :
            /\ OnePerKey(once)
            /\ KeysIn(once) = KeysIn(ledger) \cup {k}
            /\ \A r \in once :
                   IF RowKey(r) = k THEN r.searched_at = isoformat(now)
                                    ELSE r \in ledger
            /\ \A t \in now..horizon :
                \A twice \in {mark_searched(once, t, k[1], k[2], k[3])} :
                    /\ OnePerKey(twice)
                    /\ KeysIn(twice) = KeysIn(once)
                    /\ \A r \in twice :
                           RowKey(r) = k => r.searched_at = isoformat(t)

\* two rows, one of them written at an earlier time, so that a mark of its
\* key now has a row to overwrite
C17_Witness ==
    /\ Cardinality(ledger) >= 2
    /\ \E k \in NearKeys : HasRow(k) /\ lastMarked[k] < now

\* the record is one the future filter of the running hunt drops
DroppedForDate(r) == r \notin OnlyNotFuture({r})
\* the date field the hunt reads holds a text that fromisoformat accepts
HasParseableDate(r) == RelevantDate(sys, r) \notin {NoDate, BadDate}

HuntsOf(system, h) == {x \in hunted : x[1] = system /\ x[3] = h}
RECURSIVE SumLimits(_)
SumLimits(S) ==
    IF S = {} THEN 0
    ELSE LET x == CHOOSE y \in S : TRUE
         IN  x[4] + SumLimits(S \ {x})

\* C19: a hunt makes at most one count query, at most one page fetch and at
\* most min(limit, 100) posts, and returns at most its limit; an instance
\* gets at most one hunt of each kind in a cycle, and only once its turn has
\* begun; so each counter stays within the sum of the limits of the hunts
\* of its kind.
C19_BoundedWork ==
    [][/\ pc' \in HuntPcs =>
            /\ Cardinality(Calls("count")') <= 1
            /\ Cardinality(Calls("fetch")') <= 1
            /\ Cardinality(Calls("post")') <= Min(limit', MaxPageSize)
            /\ Cardinality(candidates') <= MaxPageSize
            /\ searched' <= limit' /\ ret' <= limit'
       /\ \A x \in hunted' \ hunted :
            /\ <<x[1], x[2]>> \in visited'
            /\ ~ \E y \in hunted : y[1] = x[1] /\ y[2] = x[2] /\ y[3] = x[3]
       /\ \A i \in 1..2, j \in 1..2 :
            totals'[TotalKey(Systems[i], Hunts[j])]
                <= SumLimits(HuntsOf(Systems[i], Hunts[j])')]_vars

\* the end of a cycle in which all four hunts ran and the sonarr missing
\* hunt used its whole limit of 2
C19_Witness ==
    /\ pc = "close" /\ Cardinality(hunted) = 4
    /\ totals[TotalKey("sonarr", "missing")] = 2
    /\ <<"sonarr", 1, "missing", 2>> \in hunted

SonarrInstances == {<<"sonarr", j>> : j \in 1..NumOf("sonarr")}
\* every item of to_search has had its turn of the loop
LoopDone ==
    IF dry_run
    THEN Logged("dry", {"ok"}) = Range(to_search)
    ELSE /\ Logged("post", {"ok", "rejected", "badjson"}) = Range(to_search)
         /\ Logged("mark", {"ok", "fail"}) = Logged("post", {"ok"})

\* C20: the step that starts a cycle purges, before any call of a hunt, and
\* no later step of the cycle deletes a row; the radarr instances have their
\* turns after all sonarr instances, in the order of their lists; a hunt
\* starts only after the connection check of its instance or, for the
\* upgrade hunt, at the return of the missing hunt of the same instance,
\* whose loop is done by then; an instance's missing hunt never starts after
\* another hunt of that instance.
C20_FixedSequentialOrder ==
    [][/\ (pc \notin Running /\ pc' \in Running) =>
            /\ ledger' = purge_expired(ledger, now)
            /\ hunted' = {} /\ called' = {} /\ hlog' = <<>>
       /\ pc \in Running => KeysIn(ledger) \subseteq KeysIn(ledger')
       /\ (pc \in Running /\ pc' \in Running) =>
            /\ sys = "radarr" => sys' = "radarr"
            /\ sys' = "radarr" => SonarrInstances \subseteq visited'
            /\ Here' # Here =>
                /\ pc \in {"instance", "connect", "return"}
                /\ \/ sys' = sys /\ idx' = idx + 1
                   \/ sys = "sonarr" /\ sys' = "radarr" /\ idx' <= 1
                /\ pc = "return" => LoopDone
            /\ \A x \in hunted' \ hunted :
                /\ x[1] = sys /\ x[2] = idx /\ Here' = Here
                /\ \/ pc = "connect"
                   \/ /\ pc = "return" /\ LoopDone
                      /\ hunt = "missing" /\ x[3] = "upgrades"
                /\ x[3] = "missing" =>
                       ~ \E y \in hunted : y[1] = x[1] /\ y[2] = x[2]]_vars

\* the last of the four hunts of a cycle that began with a purge of a row
C20_Witness ==
    /\ purged > 0 /\ Cardinality(hunted) = 4
    /\ sys = "radarr" /\ hunt = "upgrades" /\ pc = "mark"
    /\ Cardinality(ledger) >= 2

\* the (app, instance) pairs a hunt function can pass to the ledger
Scopes == Apps \X Names
HereScope == <<AppOf(sys, hunt), inst.name>>
\* the ids of Ids a hunt of the scope would keep on the ledger db at time t
Eligible(db, t, scope) ==
    IdsOf(LedgerFilter(db, t, scope[1], scope[2], {[id |-> i] : i \in Ids}))
UpgradeScope == <<sys \o "_upgrade", inst.name>>
MissingKey(id) == Key(sys, inst.name, str(id))

\* C21: a mark changes the answer of is_searched for the marked key alone:
\* ttl_hours never changes, and at a step that changes the ledger while the
\* clock stands the answer for a key changes only if the step is the mark
\* of that key, and to true; the mark of a hunt leaves the eligible ids of
\* every other (app, instance) pair as they were, now and until the horizon,
\* so those of the upgrade hunt of the same instance and of every hunt of
\* an instance of another name; and a mark of any other key after it would
\* leave the answer for the marked key as it is.
C21_KeysIsolated ==
    [][/\ ttl_hours' = ttl_hours
       /\ (now' = now /\ ledger' # ledger) =>
        /\ \A k \in Keys :
            (Recent(k)' # Recent(k)) =>
                /\ pc = "mark" /\ k = HereKey(to_search[pos])
                /\ Recent(k)'
        /\ pc = "mark" =>
            \A marked \in {HereKey(to_search[pos])} :
                /\ Recent(marked)'
                /\ \A scope \in Scopes \ {HereScope} :
                    \A t \in now..horizon :
                        Eligible(ledger', t, scope)
                            = Eligible(ledger, t, scope)
                /\ hunt = "missing" =>
                    /\ UpgradeScope \in Scopes \ {HereScope}
                    /\ marked = MissingKey(to_search[pos])
                /\ \A k \in Keys \ {marked} :
                    \A after \in
                        {mark_searched(ledger', now, k[1], k[2], k[3])} :
                        is_searched(after, now, marked[1], marked[2],
                                    marked[3])]_vars

\* the upgrade hunt has posted the command for an item that the missing
\* hunt of the same instance marked in this cycle, inside its window
C21_Witness ==
    /\ pc = "mark" /\ hunt = "upgrades"
    /\ Recent(MissingKey(to_search[pos]))
    /\ lastMarked[MissingKey(to_search[pos])] # NoMark
    /\ ~Recent(HereKey(to_search[pos]))

====
